---- MODULE Spec2Model ----
(***************************************************************************)
(* Model of SplunkFirehoseFlowlogsProcessor/app.py: the Firehose           *)
(* transformation lambda that rewrites VPC flow-log records and re-ingests *)
(* the records that do not fit under the 6,000,000 byte response ceiling.  *)
(*                                                                         *)
(* Data representation.  A byte string is represented by its structure:    *)
(*   [kind |-> "json", message |-> m]  the UTF-8 bytes of a JSON object    *)
(*                                     whose "message" is a string of m    *)
(*                                     characters                          *)
(*   [kind |-> "nomsg"]                a JSON object without "message"     *)
(*   [kind |-> "garbage"]              bytes that are not JSON             *)
(*   [kind |-> "line", message |-> m]  the bytes of message + "\n"         *)
(* and a base64 text by [b64 |-> bytes].  Lengths are the real lengths.    *)
(***************************************************************************)
EXTENDS Integers, Sequences, FiniteSets, TLC

\* ---------------------------------------------------------------- bounds
\* Longest input batch (event['records']) explored.
MaxRecords == 3
\* Capacity of one re-ingestion group: 500 at app.py:146, scaled down so
\* that batches of MaxRecords records fill more than one group.
MaxGroupSize == 2

\* ------------------------------------------------------ program constants
\* app.py:137
Ceiling == 6000000
\* app.py:159
HandlerMaxAttempts == 20

\* ------------------------------------------------------------ input sets
JsonDoc(m) == [kind |-> "json", message |-> m]
NoMessageDoc == [kind |-> "nomsg"]
Garbage == [kind |-> "garbage"]

\* base64.b64encode / base64.b64decode
b64encode(bytes) == [b64 |-> bytes]
b64decode(text) == text.b64

\* Records an invocation may carry.  Transformed sizes (data + recordId):
\*   "a","e"/2 -> 4 + 1,  "bbbb","cccc"/2249996 -> 2999996 + 4,
\*   "a"/6000000 -> 8000004 + 1.
InputRecords ==
  { [recordId |-> "a", data |-> b64encode(JsonDoc(2))],
    [recordId |-> "e", data |-> b64encode(JsonDoc(2))],
    [recordId |-> "bbbb", data |-> b64encode(JsonDoc(2249996))],
    [recordId |-> "cccc", data |-> b64encode(JsonDoc(2249996))],
    [recordId |-> "a", data |-> b64encode(JsonDoc(6000000))],
    [recordId |-> "bbbb", data |-> b64encode(Garbage)],
    [recordId |-> "cccc", data |-> b64encode(NoMessageDoc)] }

Events == UNION { [1..n -> InputRecords] : n \in 0..MaxRecords }

\* Arguments of a direct call of putRecordsToFirehoseStream.
DirectEntries == { [Data |-> JsonDoc(2)], [Data |-> Garbage] }
DirectRecords == UNION { [1..n -> DirectEntries] : n \in 0..MaxGroupSize }
MaxAttemptsSet == {-1, 0, 1, 2, 3}

\* What the sink (client.put_record_batch) can answer.
SinkExceptions == {"ServiceUnavailableException"}
ResponseItems ==
  { [RecordId |-> "r"], [ErrorCode |-> ""], [ErrorCode |-> "ServiceUnavailable"] }
Responses(n) ==
  { [FailedPutCount |-> c, RequestResponses |-> rr] :
      c \in {0, 1}, rr \in [1..n -> ResponseItems] }

NoResponse == [none |-> TRUE]
NoError == [none |-> TRUE]

\* ------------------------------------------------------- pure functions
\* len() of a byte string
ByteLen(bytes) ==
  CASE bytes.kind = "line" -> bytes.message + 1
    [] bytes.kind = "json" -> bytes.message + 14
    [] bytes.kind = "nomsg" -> 2
    [] bytes.kind = "garbage" -> 1

\* len() of a base64 text: four characters per started group of three bytes
B64Len(text) == 4 * ((ByteLen(text.b64) + 2) \div 3)

\* json.loads(data.decode('utf8')) succeeds and log_event['message'] exists
Decodable(r) == b64decode(r.data).kind = "json"

\* the exception processRecords lets through on the first record that fails
DecodeErrorOf(r) ==
  IF b64decode(r.data).kind = "garbage"
    THEN [type |-> "JSONDecodeError"]
    ELSE [type |-> "KeyError"]

\* json.loads(data.decode('utf8')) of a decodable payload
json_loads(bytes) == [message |-> bytes.message]

\* log_event['message'] + '\n'
transformLogEvent(log_event) == [kind |-> "line", message |-> log_event.message]

\* one yield of processRecords
processRecord(r) ==
  [ data |-> b64encode(transformLogEvent(json_loads(b64decode(r.data)))),
    result |-> "Ok",
    recordId |-> r.recordId ]

\* processRecords losing the last record of the batch
processRecords_Short(records) ==
  [ i \in 1..(Len(records) - 1) |-> processRecord(records[i]) ]

\* list(processRecords(event['records']))
processRecords(records) ==
  [ i \in 1..Len(records) |-> processRecord(records[i]) ]

\* the re-ingestion record built without decoding the wire form
createReingestionRecord_NoDecode(originalRecord) ==
  [data |-> originalRecord.data]

\* {'data': base64.b64decode(originalRecord['data'])}
createReingestionRecord(originalRecord) ==
  [data |-> b64decode(originalRecord.data)]

getReingestionRecord(reIngestionRecord) ==
  [Data |-> reIngestionRecord.data]

\* {rec['recordId']: createReingestionRecord(rec) for rec in event['records']}
\* (a later record with the same id overwrites an earlier one)
LastIndexOf(records, id) ==
  CHOOSE i \in 1..Len(records) :
    /\ records[i].recordId = id
    /\ \A j \in (i + 1)..Len(records) : records[j].recordId # id

dataByRecordIdOf(records) ==
  [ id \in { records[i].recordId : i \in 1..Len(records) } |->
      createReingestionRecord(records[LastIndexOf(records, id)]) ]

\* ------------------------------------------- size accounting and batching
\* len(rec['data']) + len(rec['recordId'])
RecordSize(rec) == B64Len(rec.data) + Len(rec.recordId)

\* the ceiling test with a digit too many, and with >= for >
OverCeiling_Typo(projectedSize) == projectedSize > 10 * Ceiling
OverCeiling_Ge(projectedSize) == projectedSize >= Ceiling

\* if projectedSize > 6000000
OverCeiling(projectedSize) == projectedSize > Ceiling

\* the record marked Dropped with its data left in place
DropRecord_KeepData(rec) == [rec EXCEPT !.result = "Dropped"]

\* records[idx]['result'] = 'Dropped'; del(records[idx]['data'])
DropRecord(rec) == [recordId |-> rec.recordId, result |-> "Dropped"]

\* the group closed one entry late
GroupFull_Late(recordsToReingest) == Len(recordsToReingest) > MaxGroupSize

\* if len(recordsToReingest) == 500
GroupFull(recordsToReingest) == Len(recordsToReingest) = MaxGroupSize

\* the locals of lambda_handler before the loop
LoopStart(eventRecords) ==
  [ records |-> processRecords(eventRecords),
    projectedSize |-> 0,
    putRecordBatches |-> << >>,
    recordsToReingest |-> << >>,
    totalRecordsToBeReingested |-> 0 ]

\* the running total replaced by the size of the record alone
AddSize_Alone(projectedSize, rec) == RecordSize(rec)

\* projectedSize += len(rec['data']) + len(rec['recordId'])
AddSize(projectedSize, rec) == projectedSize + RecordSize(rec)

\* one iteration in which a flagged record is left out of the running total
LoopBody_SkipDropped(st, idx, dataByRecordId) ==
  LET rec == st.records[idx]
      size == AddSize(st.projectedSize, rec)
      s1 == IF OverCeiling(size)
              THEN [ st EXCEPT
                       !.totalRecordsToBeReingested = @ + 1,
                       !.recordsToReingest =
                          Append(@, getReingestionRecord(dataByRecordId[rec.recordId])),
                       !.records[idx] = DropRecord(rec) ]
              ELSE [ st EXCEPT !.projectedSize = size ]
  IN  IF GroupFull(s1.recordsToReingest)
        THEN [ s1 EXCEPT
                 !.putRecordBatches = Append(@, s1.recordsToReingest),
                 !.recordsToReingest = << >> ]
        ELSE s1

\* one iteration of "for idx, rec in enumerate(records)"
LoopBody(st, idx, dataByRecordId) ==
  LET rec == st.records[idx]
      size == AddSize(st.projectedSize, rec)
      s1 == IF OverCeiling(size)
              THEN [ st EXCEPT
                       !.projectedSize = size,
                       !.totalRecordsToBeReingested = @ + 1,
                       !.recordsToReingest =
                          Append(@, getReingestionRecord(dataByRecordId[rec.recordId])),
                       !.records[idx] = DropRecord(rec) ]
              ELSE [ st EXCEPT !.projectedSize = size ]
  IN  IF GroupFull(s1.recordsToReingest)
        THEN [ s1 EXCEPT
                 !.putRecordBatches = Append(@, s1.recordsToReingest),
                 !.recordsToReingest = << >> ]
        ELSE s1

RECURSIVE LoopFrom(_, _, _)
LoopFrom(st, idx, dataByRecordId) ==
  IF idx > Len(st.records)
    THEN st
    ELSE LoopFrom(LoopBody(st, idx, dataByRecordId), idx + 1, dataByRecordId)

\* if len(recordsToReingest) > 0: putRecordBatches.append(recordsToReingest)
AddLastBatch(st) ==
  IF Len(st.recordsToReingest) > 0
    THEN [ st EXCEPT !.putRecordBatches = Append(@, st.recordsToReingest) ]
    ELSE st

\* lambda_handler from its first line up to "iterate and call putRecordBatch"
Prepare(eventRecords) ==
  AddLastBatch(LoopFrom(LoopStart(eventRecords), 1, dataByRecordIdOf(eventRecords)))

\* ----------------------------------------------------- delivery helpers
\* an empty ErrorCode taken for a failure
HasErrorCode_Present(res) == "ErrorCode" \in DOMAIN res

\* 'ErrorCode' not in res or not res['ErrorCode']  => no re-ingest needed
HasErrorCode(res) == "ErrorCode" \in DOMAIN res /\ res.ErrorCode # ""

RECURSIVE SelectFailed(_, _, _)
\* the enumerate loop over response['RequestResponses'], from index idx:
\* pairs <<records[idx], code>> of the entries that carry an error code
SelectFailed(records, requestResponses, idx) ==
  IF idx > Len(requestResponses)
    THEN << >>
    ELSE IF HasErrorCode(requestResponses[idx])
      THEN << <<records[idx], requestResponses[idx].ErrorCode>> >>
             \o SelectFailed(records, requestResponses, idx + 1)
      ELSE SelectFailed(records, requestResponses, idx + 1)

\* every entry taken for failed as soon as the response reports a failure
FailedRecords_All(records, response) ==
  IF response.FailedPutCount > 0 THEN records ELSE << >>

\* failedRecords after a call that returned
FailedRecords(records, response) ==
  IF response.FailedPutCount > 0
    THEN LET sel == SelectFailed(records, response.RequestResponses, 1)
         IN  [ i \in 1..Len(sel) |-> sel[i][1] ]
    ELSE << >>

\* errMsg with the codes left out
ErrMsgOf_Prefix(records, response) ==
  IF response.FailedPutCount > 0
    THEN << "Individual error codes: " >>
    ELSE << >>

\* errMsg after a call that returned ('' when FailedPutCount is 0)
ErrMsgOf(records, response) ==
  IF response.FailedPutCount > 0
    THEN LET sel == SelectFailed(records, response.RequestResponses, 1)
         IN  << "Individual error codes: " >> \o [ i \in 1..Len(sel) |-> sel[i][2] ]
    ELSE << >>

\* the attempt bound off by one
CanRetry_Le(attempts, maxAtt) == attempts + 1 <= maxAtt

\* if attemptsMade + 1 < maxAttempts
CanRetry(attempts, maxAtt) == attempts + 1 < maxAtt

\* ------------------------------------------------------------------ state
VARIABLES
  entry,                      \* the function the caller invoked
  pc,                         \* "idle", "sending" (a putRecordsToFirehoseStream
                              \* frame is about to call put_record_batch),
                              \* "returned", "raised"
  event,                      \* event['records']
  records,                    \* lambda_handler: records
  projectedSize,              \* lambda_handler: projectedSize
  putRecordBatches,           \* lambda_handler: putRecordBatches
  totalRecordsToBeReingested, \* lambda_handler: totalRecordsToBeReingested
  recordsReingestedSoFar,     \* lambda_handler: recordsReingestedSoFar
  batchIdx,                   \* position of recordBatch in putRecordBatches
  clientCreated,              \* boto3.client('firehose', ...) was called
  sendRecords,                \* putRecordsToFirehoseStream: records
  attemptsMade,               \* putRecordsToFirehoseStream: attemptsMade
  maxAttempts,                \* putRecordsToFirehoseStream: maxAttempts
  sinkCalls,                  \* sinkCalls[k]: put_record_batch calls made so
                              \* far for the k-th delivery of the invocation
  lastResponse,               \* outcome of the latest put_record_batch call
  error                       \* the exception the invocation ended with

vars ==
  << entry, pc, event, records, projectedSize, putRecordBatches,
     totalRecordsToBeReingested, recordsReingestedSoFar, batchIdx,
     clientCreated, sendRecords, attemptsMade, maxAttempts, sinkCalls,
     lastResponse, error >>

handlerVars ==
  << event, records, projectedSize, putRecordBatches,
     totalRecordsToBeReingested, clientCreated >>

\* locals of lambda_handler that putRecordsToFirehoseStream has no name for
callFrame ==
  << event, projectedSize, totalRecordsToBeReingested, clientCreated >>

Init ==
  /\ entry = "none"
  /\ pc = "idle"
  /\ event = << >>
  /\ records = << >>
  /\ projectedSize = 0
  /\ putRecordBatches = << >>
  /\ totalRecordsToBeReingested = 0
  /\ recordsReingestedSoFar = 0
  /\ batchIdx = 0
  /\ clientCreated = FALSE
  /\ sendRecords = << >>
  /\ attemptsMade = 0
  /\ maxAttempts = 0
  /\ sinkCalls = << >>
  /\ lastResponse = NoResponse
  /\ error = NoError

\* ---------------------------------------------------------------- actions
\* lambda_handler(event, context), up to the first put_record_batch call,
\* or to its end when a payload does not decode or nothing is re-ingested.
lambda_handler ==
  /\ pc = "idle"
  /\ \E ev \in Events :
       /\ entry' = "lambda_handler"
       /\ event' = ev
       /\ IF \E i \in 1..Len(ev) : ~Decodable(ev[i])
            THEN LET first == CHOOSE i \in 1..Len(ev) :
                                /\ ~Decodable(ev[i])
                                /\ \A j \in 1..(i - 1) : Decodable(ev[j])
                 IN  /\ pc' = "raised"
                     /\ error' = DecodeErrorOf(ev[first])
                     /\ UNCHANGED << records, projectedSize, putRecordBatches,
                                     totalRecordsToBeReingested, batchIdx,
                                     clientCreated, sendRecords, attemptsMade,
                                     maxAttempts, sinkCalls >>
            ELSE LET st == Prepare(ev)
                 IN  /\ records' = st.records
                     /\ projectedSize' = st.projectedSize
                     /\ putRecordBatches' = st.putRecordBatches
                     /\ totalRecordsToBeReingested' = st.totalRecordsToBeReingested
                     /\ error' = NoError
                     /\ IF Len(st.putRecordBatches) > 0
                          THEN /\ clientCreated' = TRUE
                               /\ batchIdx' = 1
                               /\ sendRecords' = st.putRecordBatches[1]
                               /\ attemptsMade' = 0
                               /\ maxAttempts' = HandlerMaxAttempts
                               /\ sinkCalls' = << 0 >>
                               /\ pc' = "sending"
                          ELSE /\ pc' = "returned"
                               /\ UNCHANGED << batchIdx, clientCreated, sendRecords,
                                               attemptsMade, maxAttempts, sinkCalls >>
  /\ UNCHANGED << recordsReingestedSoFar, lastResponse >>

\* the direct call with the attempt bound tested before the first sink call
CallPutRecordsToFirehoseStream_BoundFirst ==
  /\ pc = "idle"
  /\ \E recs \in DirectRecords, maxAtt \in MaxAttemptsSet :
       /\ sendRecords' = recs
       /\ maxAttempts' = maxAtt
       /\ IF maxAtt <= 0
            THEN /\ pc' = "raised"
                 /\ error' = [ type |-> "RuntimeError",
                               maxAttempts |-> maxAtt,
                               errMsg |-> << >> ]
            ELSE /\ pc' = "sending"
                 /\ UNCHANGED error
  /\ entry' = "putRecordsToFirehoseStream"
  /\ attemptsMade' = 0
  /\ sinkCalls' = << 0 >>
  /\ UNCHANGED << handlerVars, recordsReingestedSoFar, batchIdx, lastResponse >>

\* putRecordsToFirehoseStream(streamName, records, client, 0, maxAttempts)
\* called by itself, up to its first put_record_batch call.
CallPutRecordsToFirehoseStream ==
  /\ pc = "idle"
  /\ \E recs \in DirectRecords, maxAtt \in MaxAttemptsSet :
       /\ sendRecords' = recs
       /\ maxAttempts' = maxAtt
  /\ entry' = "putRecordsToFirehoseStream"
  /\ attemptsMade' = 0
  /\ sinkCalls' = << 0 >>
  /\ pc' = "sending"
  /\ UNCHANGED << handlerVars, recordsReingestedSoFar, batchIdx, lastResponse, error >>

\* Delivered with the loop sending the group it has just delivered again
Delivered_SameGroup ==
  IF entry = "lambda_handler"
    THEN /\ recordsReingestedSoFar' =
              recordsReingestedSoFar + Len(putRecordBatches[batchIdx])
         /\ IF batchIdx < Len(putRecordBatches)
              THEN /\ batchIdx' = batchIdx + 1
                   /\ sendRecords' = putRecordBatches[batchIdx]
                   /\ attemptsMade' = 0
                   /\ pc' = "sending"
              ELSE /\ pc' = "returned"
                   /\ UNCHANGED << batchIdx, sendRecords, attemptsMade >>
    ELSE /\ pc' = "returned"
         /\ UNCHANGED << recordsReingestedSoFar, batchIdx, sendRecords, attemptsMade >>

\* putRecordsToFirehoseStream returned without raising: back in the caller.
\* In lambda_handler the loop over putRecordBatches goes on to the next group
\* or the handler returns {"records": records}.
Delivered ==
  IF entry = "lambda_handler"
    THEN /\ recordsReingestedSoFar' =
              recordsReingestedSoFar + Len(putRecordBatches[batchIdx])
         /\ IF batchIdx < Len(putRecordBatches)
              THEN /\ batchIdx' = batchIdx + 1
                   /\ sendRecords' = putRecordBatches[batchIdx + 1]
                   /\ attemptsMade' = 0
                   /\ pc' = "sending"
              ELSE /\ pc' = "returned"
                   /\ UNCHANGED << batchIdx, sendRecords, attemptsMade >>
    ELSE /\ pc' = "returned"
         /\ UNCHANGED << recordsReingestedSoFar, batchIdx, sendRecords, attemptsMade >>

\* sinkCalls after the call of this step, with a slot opened when the
\* handler's loop moves on to the next group
CountCall(calls, startsNext) ==
  LET k == Len(calls)
      counted == [ calls EXCEPT ![k] = @ + 1 ]
  IN  IF startsNext THEN Append(counted, 0) ELSE counted

\* AfterCall with the exhausted-retries error swallowed: the caller carries on
AfterCall_Swallow(failedRecords, errMsg) ==
  IF Len(failedRecords) > 0 /\ CanRetry(attemptsMade, maxAttempts)
    THEN /\ sendRecords' = failedRecords
         /\ attemptsMade' = attemptsMade + 1
         /\ pc' = "sending"
         /\ sinkCalls' = CountCall(sinkCalls, FALSE)
         /\ UNCHANGED << recordsReingestedSoFar, batchIdx, error >>
    ELSE /\ Delivered
         /\ sinkCalls' = CountCall(sinkCalls, pc' = "sending")
         /\ UNCHANGED error

\* AfterCall with the retry made without counting the attempt
AfterCall_NoCount(failedRecords, errMsg) ==
  IF Len(failedRecords) > 0
    THEN IF CanRetry(attemptsMade, maxAttempts)
           THEN /\ sendRecords' = failedRecords
                /\ attemptsMade' = attemptsMade
                /\ pc' = "sending"
                /\ sinkCalls' = CountCall(sinkCalls, FALSE)
                /\ UNCHANGED << recordsReingestedSoFar, batchIdx, error >>
           ELSE /\ pc' = "raised"
                /\ error' = [ type |-> "RuntimeError",
                              maxAttempts |-> maxAttempts,
                              errMsg |-> errMsg ]
                /\ sinkCalls' = CountCall(sinkCalls, FALSE)
                /\ UNCHANGED << recordsReingestedSoFar, batchIdx, sendRecords,
                                attemptsMade >>
    ELSE /\ Delivered
         /\ sinkCalls' = CountCall(sinkCalls, pc' = "sending")
         /\ UNCHANGED error

\* lines 108-113 of putRecordsToFirehoseStream, and what follows in the caller
AfterCall(failedRecords, errMsg) ==
  IF Len(failedRecords) > 0
    THEN IF CanRetry(attemptsMade, maxAttempts)
           THEN /\ sendRecords' = failedRecords
                /\ attemptsMade' = attemptsMade + 1
                /\ pc' = "sending"
                /\ sinkCalls' = CountCall(sinkCalls, FALSE)
                /\ UNCHANGED << recordsReingestedSoFar, batchIdx, error >>
           ELSE /\ pc' = "raised"
                /\ error' = [ type |-> "RuntimeError",
                              maxAttempts |-> maxAttempts,
                              errMsg |-> errMsg ]
                /\ sinkCalls' = CountCall(sinkCalls, FALSE)
                /\ UNCHANGED << recordsReingestedSoFar, batchIdx, sendRecords,
                                attemptsMade >>
    ELSE /\ Delivered
         /\ sinkCalls' = CountCall(sinkCalls, pc' = "sending")
         /\ UNCHANGED error

\* the caller's group with the failed subset written through to it
BatchesAfterCall_Narrow(batches, idx, failedRecords) ==
  IF idx \in 1..Len(batches)
    THEN [ batches EXCEPT ![idx] = failedRecords ]
    ELSE batches

\* putRecordBatches after one put_record_batch call.  failedRecords is a
\* list of its own (line 84) or, after a raise, a second name of the caller's
\* group (line 93); line 104 appends to it only while it is the list of its
\* own, so the group is never written to.
BatchesAfterCall(batches, idx, failedRecords) == batches

\* the Dropped records marked ProcessingFailed when entries were left over
RecordsAfterCall_Mark(recs, failedRecords) ==
  IF failedRecords = << >>
    THEN recs
    ELSE [ i \in 1..Len(recs) |->
             IF recs[i].result = "Dropped"
               THEN [ recs[i] EXCEPT !.result = "ProcessingFailed" ]
               ELSE recs[i] ]

\* lambda_handler's records after one put_record_batch call: the list is
\* not handed to putRecordsToFirehoseStream and the loop of lines 158-161
\* does not assign to it.
RecordsAfterCall(recs, failedRecords) == recs

\* a raise of put_record_batch let through to the caller (no try/except)
PutRecordBatchRaises_Fatal ==
  /\ pc = "sending"
  /\ \E e \in SinkExceptions :
       /\ lastResponse' = [raised |-> e]
       /\ error' = [type |-> e]
  /\ pc' = "raised"
  /\ sinkCalls' = CountCall(sinkCalls, FALSE)
  /\ UNCHANGED << entry, handlerVars, maxAttempts, recordsReingestedSoFar,
                  batchIdx, sendRecords, attemptsMade >>

\* client.put_record_batch raises
PutRecordBatchRaises ==
  /\ pc = "sending"
  /\ \E e \in SinkExceptions :
       /\ lastResponse' = [raised |-> e]
       /\ AfterCall(sendRecords, << e >>)
       /\ putRecordBatches' = BatchesAfterCall(putRecordBatches, batchIdx, sendRecords)
       /\ records' = RecordsAfterCall(records, sendRecords)
  /\ UNCHANGED << entry, callFrame, maxAttempts >>

\* client.put_record_batch returns a response
PutRecordBatchReturns ==
  /\ pc = "sending"
  /\ \E response \in Responses(Len(sendRecords)) :
       /\ lastResponse' = response
       /\ AfterCall(FailedRecords(sendRecords, response),
                    ErrMsgOf(sendRecords, response))
       /\ putRecordBatches' =
            BatchesAfterCall(putRecordBatches, batchIdx,
                             FailedRecords(sendRecords, response))
       /\ records' = RecordsAfterCall(records, FailedRecords(sendRecords, response))
  /\ UNCHANGED << entry, callFrame, maxAttempts >>

Next ==
  \/ lambda_handler
  \/ CallPutRecordsToFirehoseStream
  \/ PutRecordBatchRaises
  \/ PutRecordBatchReturns

Spec == Init /\ [][Next]_vars

\* put_record_batch is a blocking call that returns or raises: a delivery
\* that is about to call the sink does not wait for ever.
FairSpec ==
  Init /\ [][Next]_vars /\ WF_vars(PutRecordBatchRaises \/ PutRecordBatchReturns)

\* ------------------------------------------------- vocabulary of the claims
\* lambda_handler got past the size-accounting loop
Prepared ==
  /\ entry = "lambda_handler"
  /\ pc \in {"sending", "returned", "raised"}
  /\ (pc = "raised" => error.type = "RuntimeError")

HandlerReturned == entry = "lambda_handler" /\ pc = "returned"

Exhausted == pc = "raised" /\ error.type = "RuntimeError"

IsDropped(rec) == rec.result = "Dropped"
IsOk(rec) == rec.result = "Ok"

\* size the transformed form of an input record contributes: the base64
\* text of (message + newline) and the record id
ExpectedSize(r) == 4 * ((r.data.b64.message + 1 + 2) \div 3) + Len(r.recordId)

RECURSIVE SumOk(_, _)
\* sum of len(data) + len(recordId) over the Ok records from index i on
SumOk(recs, i) ==
  IF i > Len(recs)
    THEN 0
    ELSE (IF IsOk(recs[i]) THEN B64Len(recs[i].data) + Len(recs[i].recordId) ELSE 0)
           + SumOk(recs, i + 1)

\* size of the largest record of the batch
MaxExpectedSize ==
  IF event = << >>
    THEN 0
    ELSE CHOOSE m \in { ExpectedSize(event[i]) : i \in 1..Len(event) } :
           \A i \in 1..Len(event) : ExpectedSize(event[i]) <= m

RECURSIVE SumLen(_, _)
\* number of entries in the groups from index k on
SumLen(groups, k) ==
  IF k > Len(groups) THEN 0 ELSE Len(groups[k]) + SumLen(groups, k + 1)

DroppedCount == Cardinality({ i \in 1..Len(records) : IsDropped(records[i]) })

\* ------------------------------------------------------------------ claims
\* C1: whenever lambda_handler returns, the returned list has as many
\* records as the input batch and the i-th returned record carries the id of
\* the i-th input record, whatever was dropped and whatever the sink did.
C1_OrderAndCardinality ==
  HandlerReturned =>
    /\ Len(records) = Len(event)
    /\ \A i \in 1..Len(event) : records[i].recordId = event[i].recordId

\* a returned batch of three with an Ok and a Dropped record whose group
\* needed more than one sink call
C1_Witness ==
  /\ HandlerReturned
  /\ Len(event) = 3
  /\ \E i, j \in 1..Len(records) : IsOk(records[i]) /\ IsDropped(records[j])
  /\ sinkCalls[1] >= 2

\* C2: monotonic drop - in the list lambda_handler produces, a Dropped
\* record is followed by Dropped records only.
C2_MonotonicDrop ==
  Prepared =>
    \A i, j \in 1..Len(records) :
      (i < j /\ IsDropped(records[i])) => IsDropped(records[j])

\* a Dropped record followed by a record that is small by itself
C2_Witness ==
  /\ Prepared
  /\ \E i, j \in 1..Len(records) :
       /\ i < j
       /\ IsDropped(records[i])
       /\ IsDropped(records[j])
       /\ ExpectedSize(event[j]) <= 5

\* C3: after the size-accounting loop the sizes of the Ok records add up
\* to no more than the ceiling plus the size of one record.
C3_CumulativeSize ==
  Prepared => SumOk(records, 1) <= Ceiling + MaxExpectedSize

\* the Ok records fill the ceiling exactly and a later record is dropped
C3_Witness ==
  /\ Prepared
  /\ SumOk(records, 1) = Ceiling
  /\ \E j \in 1..Len(records) : IsDropped(records[j])

\* C4: retry bound - with maxAttempts >= 1 no delivery makes more than
\* maxAttempts put_record_batch calls, a delivery that is still sending has
\* made fewer, and the exhausted-retries error comes after exactly
\* maxAttempts calls.
C4_RetryBound ==
  (pc # "idle" /\ maxAttempts >= 1) =>
    /\ \A k \in 1..Len(sinkCalls) : sinkCalls[k] <= maxAttempts
    /\ (pc = "sending" => sinkCalls[Len(sinkCalls)] < maxAttempts)
    /\ (Exhausted => sinkCalls[Len(sinkCalls)] = maxAttempts)

\* the handler's second group runs out of its 20 attempts after the first
\* group was delivered with retries
C4_Witness ==
  /\ entry = "lambda_handler"
  /\ Exhausted
  /\ Len(sinkCalls) = 2
  /\ sinkCalls[1] > 1
  /\ sinkCalls[2] = HandlerMaxAttempts

\* the latest put_record_batch call returned a response
Returned(r) == "FailedPutCount" \in DOMAIN r

\* the response item carries a non-empty ErrorCode
CarriesCode(item) == "ErrorCode" \in DOMAIN item /\ Len(item.ErrorCode) > 0

\* positions of the response items that carry a code, in order
FailedIndexes(rr) ==
  SelectSeq([ i \in 1..Len(rr) |-> i ], LAMBDA i : CarriesCode(rr[i]))

\* the entries submitted at those positions, in order
ExpectedRetry(sent, rr) ==
  [ k \in 1..Len(FailedIndexes(rr)) |-> sent[FailedIndexes(rr)[k]] ]

\* the call of this step is counted for the current delivery only
CallCounted ==
  /\ Len(sinkCalls') >= Len(sinkCalls)
  /\ \A k \in 1..Len(sinkCalls) :
       sinkCalls'[k] = sinkCalls[k] + (IF k = Len(sinkCalls) THEN 1 ELSE 0)

\* the delivery of the current group is over: the invocation returned or
\* the next group is being delivered
GroupOver ==
  \/ pc' = "returned"
  \/ /\ pc' = "sending"
     /\ Len(sinkCalls') = Len(sinkCalls) + 1
     /\ sinkCalls'[Len(sinkCalls')] = 0

\* C5: failed-subset narrowing - after a put_record_batch call that returns
\* with FailedPutCount > 0, a next attempt for the group submits exactly the
\* entries whose response item carried a non-empty ErrorCode, in their
\* order; when there is no such entry, or the call reports no failure, the
\* group gets no further sink call.
C5_Narrowing ==
  [][ (pc = "sending" /\ Returned(lastResponse')) =>
        LET expected == ExpectedRetry(sendRecords, lastResponse'.RequestResponses)
        IN  /\ CallCounted
            /\ IF lastResponse'.FailedPutCount > 0 /\ expected # << >>
                 THEN \/ /\ pc' = "sending"
                         /\ Len(sinkCalls') = Len(sinkCalls)
                         /\ sendRecords' = expected
                      \/ pc' = "raised"
                 ELSE GroupOver ]_vars

\* a retry that submits one entry of two after a response with a code, an
\* empty code and FailedPutCount > 0
C5_Witness ==
  /\ pc = "sending"
  /\ attemptsMade >= 1
  /\ Returned(lastResponse)
  /\ lastResponse.FailedPutCount > 0
  /\ Len(lastResponse.RequestResponses) = 2
  /\ \E i \in 1..2 : lastResponse.RequestResponses[i] = [ErrorCode |-> ""]
  /\ Len(sendRecords) = 1

\* the call of this step left entries to resubmit
FailedNow(r) ==
  \/ "raised" \in DOMAIN r
  \/ /\ Returned(r)
     /\ r.FailedPutCount > 0
     /\ \E i \in 1..Len(r.RequestResponses) : CarriesCode(r.RequestResponses[i])

\* C6: exhaustion is fatal for the invocation - when the last permitted
\* call for a group of lambda_handler fails, the handler ends with the
\* exhausted-retries error, returns nothing, and no later group gets a sink
\* call: the raised state has no slot for a later group and no step leaves it.
C6_ExhaustionFatal ==
  [][ /\ pc # "raised"
      /\ ( ( /\ entry = "lambda_handler"
             /\ pc = "sending"
             /\ FailedNow(lastResponse')
             /\ sinkCalls[Len(sinkCalls)] + 1 >= maxAttempts )
           => /\ pc' = "raised"
              /\ error'.type = "RuntimeError"
              /\ Len(sinkCalls') = batchIdx'
              /\ batchIdx' = batchIdx
              /\ recordsReingestedSoFar' = recordsReingestedSoFar ) ]_vars

\* the first of two groups ran out of attempts; the second was never sent
C6_Witness ==
  /\ entry = "lambda_handler"
  /\ Exhausted
  /\ Len(putRecordBatches) = 2
  /\ batchIdx = 1
  /\ Len(sinkCalls) = 1

\* C7: grouping - the number of groups is ceil(flaggedCount / group
\* capacity); every group but the last is full, the last has between one
\* entry and the capacity, none is empty.
C7_Grouping ==
  Prepared =>
    LET n == Len(putRecordBatches)
    IN  /\ n = (DroppedCount + MaxGroupSize - 1) \div MaxGroupSize
        /\ \A k \in 1..(n - 1) : Len(putRecordBatches[k]) = MaxGroupSize
        /\ n > 0 => Len(putRecordBatches[n]) \in 1..MaxGroupSize

\* a full group followed by a partial last group
C7_Witness ==
  /\ Prepared
  /\ Len(putRecordBatches) = 2
  /\ Len(putRecordBatches[1]) = MaxGroupSize
  /\ Len(putRecordBatches[2]) < MaxGroupSize

RECURSIVE SumExpected(_, _)
\* running total of the transformed sizes of the first i input records
SumExpected(ev, i) ==
  IF i = 0 THEN 0 ELSE SumExpected(ev, i - 1) + ExpectedSize(ev[i])

\* every payload decodes and the running total never exceeds the ceiling
NothingFlagged ==
  /\ entry = "lambda_handler"
  /\ \A i \in 1..Len(event) : event[i].data.b64.kind = "json"
  /\ \A i \in 1..Len(event) : SumExpected(event, i) <= Ceiling

\* C8: when no record is flagged the invocation creates no sink client,
\* makes no put_record_batch call and returns every record Ok with its
\* transformed payload.
C8_NoFlagNoSink ==
  NothingFlagged =>
    /\ pc = "returned"
    /\ ~clientCreated
    /\ sinkCalls = << >>
    /\ lastResponse = NoResponse
    /\ Len(records) = Len(event)
    /\ \A i \in 1..Len(event) :
         records[i] =
           [ recordId |-> event[i].recordId,
             result |-> "Ok",
             data |-> [b64 |-> [kind |-> "line", message |-> event[i].data.b64.message]] ]

\* a batch whose running total ends exactly on the ceiling
C8_Witness ==
  /\ NothingFlagged
  /\ Len(event) >= 2
  /\ SumExpected(event, Len(event)) = Ceiling
  /\ pc = "returned"

\* C9: drop/entry coupling - before any sink call and in the returned
\* list, a record is Dropped iff it has no data field, Ok records keep their
\* data, and the groups hold as many entries as there are Dropped records
\* (one entry was made per flagged record).
C9_DropEntryCoupling ==
  Prepared =>
    /\ \A i \in 1..Len(records) :
         /\ records[i].result \in {"Ok", "Dropped"}
         /\ IsDropped(records[i]) <=> "data" \notin DOMAIN records[i]
         /\ IsOk(records[i]) => records[i].data = processRecord(event[i]).data
    /\ SumLen(putRecordBatches, 1) = DroppedCount
    /\ totalRecordsToBeReingested = DroppedCount

\* before the first sink call, with an Ok record and two Dropped ones
C9_Witness ==
  /\ Prepared
  /\ pc = "sending"
  /\ sinkCalls = << 0 >>
  /\ DroppedCount = 2
  /\ \E i \in 1..Len(records) : IsOk(records[i])

\* C10: a record whose transformed payload alone exceeds 6,000,000 bytes is
\* marked ProcessingFailed (and is not re-ingested).
C10_ProcessingFailed ==
  Prepared =>
    \A i \in 1..Len(records) :
      (4 * ((event[i].data.b64.message + 3) \div 3) > Ceiling)
        => records[i].result = "ProcessingFailed"

\* no two records of the batch share a recordId
UniqueIds ==
  \A i, j \in 1..Len(event) : i # j => event[i].recordId # event[j].recordId

RECURSIVE Flatten(_, _)
\* the groups from index k on, concatenated
Flatten(groups, k) ==
  IF k > Len(groups) THEN << >> ELSE groups[k] \o Flatten(groups, k + 1)

RECURSIVE OriginalsOfDropped(_, _, _)
\* for the Dropped records from index i on, in batch order, the entry made
\* of the base64-decoded payload of the input record at the same position
OriginalsOfDropped(ev, recs, i) ==
  IF i > Len(recs)
    THEN << >>
    ELSE (IF IsDropped(recs[i]) THEN << [Data |-> ev[i].data.b64] >> ELSE << >>)
           \o OriginalsOfDropped(ev, recs, i + 1)

\* C11: re-ingestion order and content - for a batch with unique record
\* ids the groups, concatenated in group order, are the flagged records in
\* batch order, each entry carrying the base64-decoded original payload of
\* its input record and never the transformed payload.
C11_OrderAndContent ==
  (Prepared /\ UniqueIds) =>
    /\ Flatten(putRecordBatches, 1) = OriginalsOfDropped(event, records, 1)
    /\ \A k \in 1..Len(putRecordBatches) :
         \A n \in 1..Len(putRecordBatches[k]) :
           putRecordBatches[k][n].Data.kind = "json"

\* three flagged records with unique ids and three different payloads,
\* spread over two groups
C11_Witness ==
  /\ Prepared
  /\ UniqueIds
  /\ Len(putRecordBatches) = 2
  /\ LET all == Flatten(putRecordBatches, 1)
     IN  /\ Len(all) = 3
         /\ \A i, j \in 1..3 : i # j => all[i] # all[j]

\* C12: flagging rule - record i is Dropped iff the running total of
\* len(payload) + len(recordId) over all records up to and including i, Ok
\* or already dropped, exceeds 6,000,000; when the flagged records fit one
\* group, exactly one group holding all of them is built.
C12_FlaggingRule ==
  Prepared =>
    /\ Len(records) = Len(event)
    /\ \A i \in 1..Len(records) :
         IsDropped(records[i]) <=> SumExpected(event, i) > Ceiling
    /\ (DroppedCount \in 1..MaxGroupSize) =>
         /\ Len(putRecordBatches) = 1
         /\ Len(putRecordBatches[1]) = DroppedCount

\* the second of three records is the first to push the total over the
\* ceiling: the first stays Ok, the last two are Dropped (the last is small
\* by itself) and one group of two entries was submitted to the sink
C12_Witness ==
  /\ Prepared
  /\ Len(records) = 3
  /\ IsOk(records[1])
  /\ IsDropped(records[2])
  /\ IsDropped(records[3])
  /\ ExpectedSize(event[3]) <= 5
  /\ Len(putRecordBatches) = 1
  /\ Len(putRecordBatches[1]) = 2
  /\ sinkCalls[1] >= 1

\* the latest put_record_batch call raised
Raised(r) == "raised" \in DOMAIN r

\* the next attempt of the same delivery resubmits the list of this call
SameListAgain ==
  /\ pc' = "sending"
  /\ Len(sinkCalls') = Len(sinkCalls)
  /\ sendRecords' = sendRecords
  /\ attemptsMade' = attemptsMade + 1

\* C13 as stated: when put_record_batch raises and attempts remain
\* (attemptsMade + 1 < maxAttempts), the next attempt resubmits exactly the
\* same full list.
C13_RaiseAlwaysRetried ==
  [][ (pc = "sending" /\ Raised(lastResponse') /\ attemptsMade + 1 < maxAttempts)
        => SameListAgain ]_vars

\* C13, amended: when put_record_batch raises on a non-empty list the whole
\* list is the failed list: with attempts left the next attempt resubmits
\* exactly that list, otherwise the call fails with the exception text as
\* its message; a raise on an empty list leaves nothing failed and the call
\* returns as delivered.
C13_TransportError ==
  [][ (pc = "sending" /\ Raised(lastResponse')) =>
        IF sendRecords = << >>
          THEN GroupOver
          ELSE IF attemptsMade + 1 < maxAttempts
                 THEN SameListAgain
                 ELSE /\ pc' = "raised"
                      /\ error'.type = "RuntimeError"
                      /\ error'.errMsg = << lastResponse'.raised >> ]_vars

\* the second attempt of the handler's group of two follows a raise and
\* carries both entries again
C13_Witness ==
  /\ entry = "lambda_handler"
  /\ pc = "sending"
  /\ Raised(lastResponse)
  /\ attemptsMade = 1
  /\ Len(sendRecords) = 2
  /\ sendRecords = putRecordBatches[batchIdx]

\* Attempting -> PartialFailure-Retry: same delivery, one more attempt made
RetryStep ==
  /\ pc' = "sending"
  /\ Len(sinkCalls') = Len(sinkCalls)
  /\ attemptsMade' = attemptsMade + 1

\* Attempting -> Success: the invocation returned or the next delivery
\* starts in Attempting with attemptsMade = 0
SuccessStep ==
  /\ GroupOver
  /\ pc' = "sending" => attemptsMade' = 0

\* Attempting -> Exhausted-Fatal
ExhaustedStep ==
  /\ pc' = "raised"
  /\ error'.type = "RuntimeError"

\* C14: termination of delivery - every delivery starts with
\* attemptsMade = 0, each of its steps is a retry that raises attemptsMade by
\* exactly one, a success or an exhaustion, and under any sink behaviour
\* every delivery eventually reaches Success or Exhausted-Fatal (the
\* invocation stops sending, and a delivery is left by those steps only).
C14_Termination ==
  /\ [][ /\ pc = "sending" => (RetryStep \/ SuccessStep \/ ExhaustedStep)
         /\ (pc = "idle" /\ pc' = "sending") => attemptsMade' = 0 ]_vars
  /\ (pc = "sending") ~> (pc \in {"returned", "raised"})

\* the handler's second delivery ended in Success after retries, the first
\* one having ended in Success too
C14_Witness ==
  /\ HandlerReturned
  /\ Len(sinkCalls) = 2
  /\ sinkCalls[1] >= 2
  /\ sinkCalls[2] >= 3

\* the call of this step returned and left no entry to resubmit
NothingFailed(r) == Returned(r) /\ ~FailedNow(r)

\* C15: sequential group delivery - sink calls are made for the group at
\* batchIdx only, batchIdx moves one group at a time and in the order the
\* groups were built, and the delivery of group k+1 starts (with the whole
\* group k+1) only in the step in which the delivery of group k reaches
\* Success; the calls counted for earlier groups never change.
C15_SequentialGroups ==
  [][ (entry = "lambda_handler" /\ pc = "sending") =>
        /\ Len(sinkCalls) = batchIdx
        /\ CallCounted
        /\ batchIdx' \in {batchIdx, batchIdx + 1}
        /\ Len(sinkCalls') = batchIdx'
        /\ (batchIdx' = batchIdx + 1) =>
             /\ NothingFailed(lastResponse')
             /\ pc' = "sending"
             /\ sendRecords' = putRecordBatches[batchIdx + 1]
             /\ attemptsMade' = 0
             /\ recordsReingestedSoFar' =
                  recordsReingestedSoFar + Len(putRecordBatches[batchIdx])
        /\ (batchIdx' = batchIdx) =>
             recordsReingestedSoFar' \in
               { recordsReingestedSoFar,
                 recordsReingestedSoFar + Len(putRecordBatches[batchIdx]) } ]_vars

\* the second group is being retried after the first one was delivered
\* with retries
C15_Witness ==
  /\ entry = "lambda_handler"
  /\ pc = "sending"
  /\ batchIdx = 2
  /\ sinkCalls[1] >= 2
  /\ sinkCalls[2] >= 1
  /\ recordsReingestedSoFar = Len(putRecordBatches[1])

\* the non-empty error codes of a response, in order
CodesOf(rr) ==
  [ k \in 1..Len(FailedIndexes(rr)) |-> rr[FailedIndexes(rr)[k]].ErrorCode ]

\* C16 as stated: the exhausted-retries error carries the individual error
\* codes of the failed entries, concatenated, and the max-attempts value.
C16_CarriesCodes ==
  Exhausted =>
    /\ error.maxAttempts = maxAttempts
    /\ Returned(lastResponse)
    /\ error.errMsg =
         << "Individual error codes: " >> \o CodesOf(lastResponse.RequestResponses)

\* C16, amended: the exhausted-retries error carries the max-attempts value
\* and the message of the last attempt only - the text of the exception
\* when the last call raised, otherwise the error codes of the entries the
\* last call reported failed, concatenated, one per entry left over.
C16_LastAttemptMessage ==
  Exhausted =>
    /\ error.maxAttempts = maxAttempts
    /\ IF Raised(lastResponse)
         THEN error.errMsg = << lastResponse.raised >>
         ELSE /\ error.errMsg =
                   << "Individual error codes: " >>
                     \o CodesOf(lastResponse.RequestResponses)
              /\ Len(error.errMsg) = 1 + Len(FailedRecords(sendRecords, lastResponse))
              /\ Len(error.errMsg) >= 2

\* the handler's group of two ran out of attempts on a response with one
\* code, after an earlier attempt had narrowed it to one entry: the message
\* holds that one code only
C16_Witness ==
  /\ entry = "lambda_handler"
  /\ Exhausted
  /\ Returned(lastResponse)
  /\ Len(putRecordBatches[batchIdx]) = 2
  /\ Len(sendRecords) = 1
  /\ error.errMsg = << "Individual error codes: ", "ServiceUnavailable" >>
  /\ error.maxAttempts = HandlerMaxAttempts

\* C17: frame - no put_record_batch outcome adds, removes or reorders
\* entries of a group or changes the sequence of groups, and delivery never
\* changes the record list the handler returns (nor the input batch).
C17_Frame ==
  [][ (pc = "sending") =>
        /\ putRecordBatches' = putRecordBatches
        /\ records' = records
        /\ event' = event ]_vars

\* a retry is under way with fewer entries than the group, which is whole
C17_Witness ==
  /\ Prepared
  /\ pc = "sending"
  /\ attemptsMade >= 1
  /\ Returned(lastResponse)
  /\ Len(sendRecords) < Len(putRecordBatches[batchIdx])
  /\ Flatten(putRecordBatches, 1) = OriginalsOfDropped(event, records, 1)

\* f picks positions of the previous attempt in increasing order
Increasing(f) ==
  \A a, b \in DOMAIN f : a < b => f[a] < f[b]

\* C18: no resubmission of accepted entries - within one delivery the
\* entries of attempt n+1 are a subsequence of those of attempt n, each
\* taken from a position where attempt n raised or the response item
\* carried a non-empty ErrorCode.
C18_NoResubmission ==
  [][ (pc = "sending" /\ pc' = "sending" /\ Len(sinkCalls') = Len(sinkCalls)) =>
        \E f \in [1..Len(sendRecords') -> 1..Len(sendRecords)] :
          /\ Increasing(f)
          /\ \A k \in 1..Len(sendRecords') :
               /\ sendRecords'[k] = sendRecords[f[k]]
               /\ \/ Raised(lastResponse')
                  \/ CarriesCode(lastResponse'.RequestResponses[f[k]]) ]_vars

\* the one entry left of a group of two is submitted a third time, after
\* a raise
C18_Witness ==
  /\ entry = "lambda_handler"
  /\ pc = "sending"
  /\ attemptsMade >= 2
  /\ Raised(lastResponse)
  /\ Len(putRecordBatches[batchIdx]) = 2
  /\ Len(sendRecords) = 1

\* putRecordsToFirehoseStream was called by itself with maxAttempts <= 1
\* and has ended
DirectCallEnded ==
  /\ entry = "putRecordsToFirehoseStream"
  /\ maxAttempts <= 1
  /\ pc \in {"returned", "raised"}

\* max(1, n)
AtLeastOne(n) == IF n >= 1 THEN n ELSE 1

\* C19 as stated: called with attemptsMade = 0 and maxAttempts <= 1 against
\* a sink that fails, putRecordsToFirehoseStream makes exactly one
\* put_record_batch call and then raises.
C19_OneCallThenRaise ==
  (DirectCallEnded /\ FailedNow(lastResponse)) =>
    /\ pc = "raised"
    /\ sinkCalls = << 1 >>

\* C19, amended: the sink call comes before the test of the attempt bound.
\* Called with maxAttempts <= 1 (0 and negative values included) the
\* function makes exactly one call whatever the sink answers; when that call
\* fails on a non-empty list it raises, when it raises on an empty list the
\* function returns; and whenever the exhausted-retries error is raised,
\* max(1, maxAttempts) calls were made.
C19_CallBeforeBound ==
  /\ DirectCallEnded =>
       /\ sinkCalls = << 1 >>
       /\ FailedNow(lastResponse) =>
            IF sendRecords = << >> THEN pc = "returned" ELSE Exhausted
  /\ Exhausted =>
       /\ sinkCalls[Len(sinkCalls)] = AtLeastOne(maxAttempts)
       /\ error.maxAttempts = maxAttempts

\* a direct call with a negative bound raised after its one call
C19_Witness ==
  /\ DirectCallEnded
  /\ maxAttempts < 0
  /\ Exhausted
  /\ sinkCalls = << 1 >>
  /\ Len(sendRecords) = 2

\* the last position of the batch that carries the record id of position i
LastWithId(ev, i) ==
  CHOOSE j \in 1..Len(ev) :
    /\ ev[j].recordId = ev[i].recordId
    /\ \A k \in (j + 1)..Len(ev) : ev[k].recordId # ev[i].recordId

\* the record the input alone prescribes at position i
ExpectedRecord(ev, i) ==
  IF SumExpected(ev, i) > Ceiling
    THEN [ recordId |-> ev[i].recordId, result |-> "Dropped" ]
    ELSE [ recordId |-> ev[i].recordId,
           result |-> "Ok",
           data |-> [b64 |-> [kind |-> "line", message |-> ev[i].data.b64.message]] ]

RECURSIVE ExpectedEntries(_, _)
\* the entries the input alone prescribes, from position i on
ExpectedEntries(ev, i) ==
  IF i > Len(ev)
    THEN << >>
    ELSE (IF SumExpected(ev, i) > Ceiling
            THEN << [Data |-> ev[LastWithId(ev, i)].data.b64] >>
            ELSE << >>)
           \o ExpectedEntries(ev, i + 1)

RECURSIVE Chunks(_)
\* a list cut into groups of MaxGroupSize, the last one possibly shorter
Chunks(list) ==
  IF list = << >>
    THEN << >>
    ELSE IF Len(list) <= MaxGroupSize
      THEN << list >>
      ELSE << SubSeq(list, 1, MaxGroupSize) >>
             \o Chunks(SubSeq(list, MaxGroupSize + 1, Len(list)))

\* C20: sink independence of the result - from the first sink call on and
\* in the returned list, lambda_handler's records (ids, results, payload
\* presence and payload bytes) and its groups are a function of the input
\* batch alone, so two invocations on the same batch that return give the
\* same list however the sink behaved.
C20_SinkIndependence ==
  Prepared =>
    /\ records = [ i \in 1..Len(event) |-> ExpectedRecord(event, i) ]
    /\ putRecordBatches = Chunks(ExpectedEntries(event, 1))

\* a returned batch with three flagged records in two groups, each group
\* delivered only after a failed call, the first after a raise or a
\* partial failure and a further failure
C20_Witness ==
  /\ HandlerReturned
  /\ DroppedCount = 3
  /\ Len(sinkCalls) = 2
  /\ sinkCalls[1] >= 3
  /\ sinkCalls[2] >= 2

====
